---- MODULE Spec2Model ----
(***************************************************************************)
(* Model of cfx_account.account.Account: the class-level network context   *)
(* _w3 (set_w3), account derivation (from_key), transaction signing        *)
(* (sign_transaction) and signer recovery (recover_transaction).           *)
(*                                                                         *)
(* The collaborators that account.py imports (the canonical encoder, the   *)
(* transaction codec, the recoverable signature engine, the digest) are    *)
(* modelled at reduced width: byte strings are sequences over 0..255, the  *)
(* wire format is the length-prefixed list encoding, the digest is a       *)
(* polynomial hash and the signature is a recoverable signature over the   *)
(* additive group of integers modulo a small prime.                        *)
(***************************************************************************)
EXTENDS Integers, Sequences, FiniteSets, TLC

VARIABLES
    w3,     \* Account._w3, the network context shared by every call
    call    \* the last call made on Account: its arguments and its outcome

vars == <<w3, call>>

-----------------------------------------------------------------------------
(* Bounds of the model *)

\* transaction nonces range over 0..MaxNonce
MaxNonce == 1
\* transferred values range over -1..MaxValue (-1 is out of range)
MaxValue == 1

-----------------------------------------------------------------------------
(* Python None *)

\* Optional[int] network_id = None
NoneId == 0 - 1
\* Optional["Web3"] _w3 = None
NoW3 == "None"

-----------------------------------------------------------------------------
(* Byte strings and the canonical (length-prefixed list) encoding *)

RECURSIVE int_to_big_endian(_)
\* minimal big-endian form, the integer zero is the empty byte string
int_to_big_endian(n) ==
    IF n = 0 THEN << >>
    ELSE int_to_big_endian(n \div 256) \o << n % 256 >>

RECURSIVE big_endian_to_int(_)
big_endian_to_int(b) ==
    IF b = << >> THEN 0
    ELSE big_endian_to_int(SubSeq(b, 1, Len(b) - 1)) * 256 + b[Len(b)]

\* one byte string as an item: a single byte below 0x80 is its own encoding,
\* any other string carries a 0x80 + length prefix (strings shorter than 56)
rlp_encode_bytes(b) ==
    IF Len(b) = 1 /\ b[1] < 128 THEN b ELSE << 128 + Len(b) >> \o b

rlp_encode_int(n) == rlp_encode_bytes(int_to_big_endian(n))

RECURSIVE Concat(_)
Concat(items) ==
    IF items = << >> THEN << >> ELSE Head(items) \o Concat(Tail(items))

\* a list of already encoded items: 0xc0 + payload length, then the payload
rlp_encode_list(items) ==
    LET payload == Concat(items) IN << 192 + Len(payload) >> \o payload

\* Splits a list payload into its items. Each item is [list, body]: whether
\* it is a nested list, and its content bytes. ok is FALSE when the framing
\* is inconsistent; truncated is TRUE when a length prefix declares more
\* bytes than there are.
RECURSIVE rlp_items(_)
rlp_items(b) ==
    IF b = << >> THEN [ok |-> TRUE, truncated |-> FALSE, items |-> << >>]
    ELSE
      LET p == b[1]
          islist == p >= 192
          single == p < 128
          n == IF single THEN 1 ELSE IF islist THEN p - 192 ELSE p - 128
          first == IF single THEN 1 ELSE 2
          last == first + n - 1
      IN  IF (~single) /\ n >= 56
            THEN [ok |-> FALSE, truncated |-> FALSE, items |-> << >>]
          ELSE IF last > Len(b)
            THEN [ok |-> FALSE, truncated |-> TRUE, items |-> << >>]
          ELSE
            LET body == SubSeq(b, first, last)
                rest == rlp_items(SubSeq(b, last + 1, Len(b)))
            IN  IF ~rest.ok THEN rest
                ELSE IF (~single) /\ (~islist) /\ n = 1 /\ body[1] < 128
                  \* a single byte below 0x80 with a length prefix
                  THEN [ok |-> FALSE, truncated |-> FALSE, items |-> << >>]
                ELSE [ok |-> TRUE, truncated |-> FALSE,
                      items |-> << [list |-> islist, body |-> body] >>
                                 \o rest.items]

\* a scalar item: a byte string, not a list, with no leading zero byte
CanonicalInt(item) ==
    /\ ~item.list
    /\ (item.body # << >> => item.body[1] # 0)

-----------------------------------------------------------------------------
(* Digest *)

\* width of the digest and order of the signature group (a prime)
CurveOrder == 251

RECURSIVE keccak(_)
\* digest of a byte string, a polynomial hash reduced to 0..CurveOrder-1
keccak(b) ==
    IF b = << >> THEN 7
    ELSE (keccak(SubSeq(b, 1, Len(b) - 1)) * 31 + b[Len(b)] + 1) % CurveOrder

-----------------------------------------------------------------------------
(* Signature engine: the classical recoverable variant *)

\* the generator of the group (points are integers modulo CurveOrder)
Generator == 3

HalfOrder == CurveOrder \div 2

\* the inverses modulo CurveOrder
InverseTable ==
    [a \in 1..(CurveOrder - 1) |->
        CHOOSE x \in 1..(CurveOrder - 1) : (a * x) % CurveOrder = 1]

Inverse(a) == InverseTable[a]

\* a point's coordinate as it appears in a signature: a point and its
\* negation share it, the recovery id tells them apart
Coordinate(point) == IF point <= HalfOrder THEN point ELSE CurveOrder - point

private_key_to_public_key(d) == (d * Generator) % CurveOrder

RECURSIVE ecdsa_raw_sign(_, _, _)
\* deterministic signing of digest z with scalar d: the nonce is derived
\* from the key and the digest, the next derivation is tried when the
\* signature would be degenerate, and s is emitted in the lower half
ecdsa_raw_sign(z, d, attempt) ==
    LET k == 1 + ((d * 7 + z * 13 + attempt) % (CurveOrder - 1))
        point == (k * Generator) % CurveOrder
        r == Coordinate(point)
        v == IF point <= HalfOrder THEN 0 ELSE 1
        s == (Inverse(k) * ((z + r * d) % CurveOrder)) % CurveOrder
    IN  IF s = 0 THEN ecdsa_raw_sign(z, d, attempt + 1)
        ELSE IF s > HalfOrder
          THEN [v |-> 1 - v, r |-> r, s |-> CurveOrder - s]
        ELSE [v |-> v, r |-> r, s |-> s]

\* the public key that (z, v, r, s) recovers to; ok is FALSE when the
\* components are out of range or recover to no key
ecdsa_raw_recover(z, v, r, s) ==
    IF ~(v \in {0, 1} /\ r \in 1..(CurveOrder - 1) /\ s \in 1..(CurveOrder - 1))
      THEN [ok |-> FALSE, public_key |-> 0]
    ELSE
      LET point == IF v = 0 THEN r ELSE CurveOrder - r
          zG == (z * Generator) % CurveOrder
          Q == (Inverse(r) * ((s * point + (CurveOrder - zG)) % CurveOrder))
                 % CurveOrder
      IN  [ok |-> Q # 0, public_key |-> Q]

-----------------------------------------------------------------------------
(* Addresses *)

\* the legacy hex address of a public key: a two-byte suffix of its digest
public_key_to_address(Q) ==
    LET b == int_to_big_endian(Q)
        hi == keccak(b)
        lo == keccak(b \o << hi >>)
    IN  (hi * 256 + lo) % 65536

\* chain-native hex form: the leading nibble is replaced by the user type 0x1
eth_eoa_address_to_cfx_hex(address) == 4096 + (address % 4096)

\* A chain-native base32 address string: the network it names, the hex
\* address it encodes and whether its checksum verifies.
Base32String(network_id, hex_address, checksum) ==
    [network_id |-> network_id, hex_address |-> hex_address,
     checksum |-> checksum]

\* Base32Address(value): decoding fails on a bad checksum; hex_address is
\* the address the string encodes, whatever network it names
Base32Address(value) ==
    [ok |-> value.checksum, hex_address |-> value.hex_address]

-----------------------------------------------------------------------------
(* Keys and accounts *)

\* a private key is a scalar in 1..CurveOrder-1
parsePrivateKey(private_key) ==
    [ok |-> private_key \in 1..(CurveOrder - 1), key_obj |-> private_key]

\* rejects out-of-range chain identifiers
validate_network_id(network_id) == network_id >= 1

\* the account value: its key, its address, its network identifier
LocalAccount(key, network_id) ==
    [key_obj |-> key,
     hex_address |->
        eth_eoa_address_to_cfx_hex(
            public_key_to_address(private_key_to_public_key(key))),
     network_id |-> network_id]

\* stands for "no account was returned"
NoAccount == [key_obj |-> 0, hex_address |-> 0, network_id |-> NoneId]

-----------------------------------------------------------------------------
(* Transactions, the encoder and the codec *)

\* the fields of an unsigned transaction, in encoding order
UnsignedFields == << "nonce", "value", "chainId" >>

FieldSet == { UnsignedFields[i] : i \in 1..Len(UnsignedFields) }

\* the signing payload: the unsigned fields in declared order
encode_unsigned(fields) ==
    rlp_encode_list([i \in 1..Len(UnsignedFields) |->
                        rlp_encode_int(fields[UnsignedFields[i]])])

\* the wire bytes: the unsigned list, then v, r, s
encode_signed(fields, v, r, s) ==
    rlp_encode_list(<< encode_unsigned(fields), rlp_encode_int(v),
                       rlp_encode_int(r), rlp_encode_int(s) >>)

NoSignature == [ok |-> FALSE, error |-> "", v |-> 0, r |-> 0, s |-> 0,
                rlp_encoded |-> << >>]

\* sign_transaction_dict(key, transaction): rejects a mapping with unknown
\* or missing fields and a field out of its range, encodes the unsigned
\* payload, signs its digest and re-encodes with the signature
sign_transaction_dict(key_obj, transaction) ==
    IF DOMAIN transaction # FieldSet
      THEN [NoSignature EXCEPT !.error = "TypeError"]
    ELSE IF \E f \in FieldSet : transaction[f] < 0
      THEN [NoSignature EXCEPT !.error = "MalformedField"]
    ELSE
      LET sig == ecdsa_raw_sign(keccak(encode_unsigned(transaction)),
                                key_obj, 0)
      IN  [ok |-> TRUE, error |-> "", v |-> sig.v, r |-> sig.r, s |-> sig.s,
           rlp_encoded |-> encode_signed(transaction, sig.v, sig.r, sig.s)]

NoTransaction == [ok |-> FALSE, error |-> "",
                  unsigned |-> [nonce |-> 0, value |-> 0, chainId |-> 0],
                  v |-> 0, r |-> 0, s |-> 0]

\* Transaction.from_bytes: the outer list [unsigned, v, r, s] with the
\* unsigned list of exactly the declared fields, every scalar canonical
Transaction_from_bytes(txn_bytes) ==
    IF txn_bytes = << >>
      THEN [NoTransaction EXCEPT !.error = "TruncatedInput"]
    ELSE IF txn_bytes[1] < 192 \/ txn_bytes[1] - 192 >= 56
      THEN [NoTransaction EXCEPT !.error = "UnsupportedType"]
    ELSE IF Len(txn_bytes) - 1 < txn_bytes[1] - 192
      THEN [NoTransaction EXCEPT !.error = "TruncatedInput"]
    ELSE IF Len(txn_bytes) - 1 > txn_bytes[1] - 192
      THEN [NoTransaction EXCEPT !.error = "InvalidEncoding"]
    ELSE
      LET outer == rlp_items(SubSeq(txn_bytes, 2, Len(txn_bytes)))
      IN  IF ~outer.ok
            THEN [NoTransaction EXCEPT !.error =
                    IF outer.truncated THEN "TruncatedInput"
                    ELSE "InvalidEncoding"]
          ELSE IF Len(outer.items) # 4 \/ ~outer.items[1].list
            THEN [NoTransaction EXCEPT !.error = "InvalidEncoding"]
          ELSE
            LET inner == rlp_items(outer.items[1].body)
            IN  IF ~inner.ok
                  THEN [NoTransaction EXCEPT !.error =
                          IF inner.truncated THEN "TruncatedInput"
                          ELSE "InvalidEncoding"]
                ELSE IF \/ Len(inner.items) # Len(UnsignedFields)
                        \/ \E i \in 1..Len(inner.items) :
                              ~CanonicalInt(inner.items[i])
                        \/ \E i \in 2..4 : ~CanonicalInt(outer.items[i])
                  THEN [NoTransaction EXCEPT !.error = "InvalidEncoding"]
                ELSE
                  [ok |-> TRUE, error |-> "",
                   unsigned |->
                     [nonce |-> big_endian_to_int(inner.items[1].body),
                      value |-> big_endian_to_int(inner.items[2].body),
                      chainId |-> big_endian_to_int(inner.items[3].body)],
                   v |-> big_endian_to_int(outer.items[2].body),
                   r |-> big_endian_to_int(outer.items[3].body),
                   s |-> big_endian_to_int(outer.items[4].body)]

\* txn[0].hash(): the digest of the re-encoded unsigned payload
unsigned_hash(txn) == keccak(encode_unsigned(txn.unsigned))

\* vrs_from(txn): the signature components of the decoded transaction
vrs_from(txn) == << txn.v, txn.r, txn.s >>

\* _recover_hash(digest, vrs): the legacy hex address the signature
\* recovers to
recover_hash(message_hash, vrs) ==
    LET rec == ecdsa_raw_recover(message_hash, vrs[1], vrs[2], vrs[3])
    IN  [ok |-> rec.ok, address |-> public_key_to_address(rec.public_key)]

-----------------------------------------------------------------------------
(* Account *)

\* the Web3 contexts a caller may attach; "faulty" reports an identifier
\* outside the range of network identifiers
Providers == { "testnet", "mainnet", "faulty" }

\* self._w3.cfx.chain_id
chain_id(provider) ==
    CASE provider = "testnet" -> 1
      [] provider = "mainnet" -> 1029
      [] OTHER -> 0

\* set_w3 that attaches a context only while none is attached
set_w3_once(self_w3, new_w3) == IF self_w3 = NoW3 THEN new_w3 ELSE self_w3

\* set_w3(w3): the new value of _w3
set_w3(self_w3, new_w3) == new_w3

\* from_key that prefers the attached context to the explicit network_id
from_key_context_first(self_w3, private_key, network_id) ==
    LET key == parsePrivateKey(private_key)
        failed(error) == [ok |-> FALSE, error |-> error, account |-> NoAccount,
                          consulted |-> FALSE, w3 |-> self_w3]
    IN  IF ~key.ok THEN failed("ValueError")
        ELSE IF self_w3 # NoW3
          THEN [ok |-> TRUE, error |-> "",
                account |-> LocalAccount(key.key_obj, chain_id(self_w3)),
                consulted |-> TRUE, w3 |-> self_w3]
        ELSE IF network_id # NoneId
          THEN IF validate_network_id(network_id)
                 THEN [ok |-> TRUE, error |-> "",
                       account |-> LocalAccount(key.key_obj, network_id),
                       consulted |-> FALSE, w3 |-> self_w3]
               ELSE failed("InvalidNetworkId")
        ELSE [ok |-> TRUE, error |-> "",
              account |-> LocalAccount(key.key_obj, NoneId),
              consulted |-> FALSE, w3 |-> self_w3]

\* from_key(private_key, network_id): the account returned, or the error;
\* consulted tells whether the provider's chain_id was read
from_key(self_w3, private_key, network_id) ==
    LET key == parsePrivateKey(private_key)
        failed(error) == [ok |-> FALSE, error |-> error, account |-> NoAccount,
                          consulted |-> FALSE, w3 |-> self_w3]
    IN  IF ~key.ok THEN failed("ValueError")
        ELSE IF network_id # NoneId
          THEN IF validate_network_id(network_id)
                 THEN [ok |-> TRUE, error |-> "",
                       account |-> LocalAccount(key.key_obj, network_id),
                       consulted |-> FALSE, w3 |-> self_w3]
               ELSE failed("InvalidNetworkId")
        ELSE IF self_w3 # NoW3
          THEN [ok |-> TRUE, error |-> "",
                account |-> LocalAccount(key.key_obj, chain_id(self_w3)),
                consulted |-> TRUE, w3 |-> self_w3]
        ELSE [ok |-> TRUE, error |-> "",
              account |-> LocalAccount(key.key_obj, NoneId),
              consulted |-> FALSE, w3 |-> self_w3]

\* dissoc(d, key): a new mapping without key
dissoc(d, key) == [x \in (DOMAIN d) \ {key} |-> d[x]]

\* the 'from' check without the comparison: any decodable sender passes
sanitized_transaction_unchecked(transaction_dict, account) ==
    IF "from" \in DOMAIN transaction_dict
      THEN
        IF ~Base32Address(transaction_dict["from"]).ok
          THEN [ok |-> FALSE, error |-> "InvalidBase32Address",
                transaction |-> transaction_dict, caller |-> transaction_dict]
        ELSE [ok |-> TRUE, error |-> "",
              transaction |-> dissoc(transaction_dict, "from"),
              caller |-> transaction_dict]
    ELSE [ok |-> TRUE, error |-> "", transaction |-> transaction_dict,
          caller |-> transaction_dict]

\* the 'from' check that hands a matching mapping to the signer as it is
sanitized_transaction_keep_from(transaction_dict, account) ==
    IF "from" \in DOMAIN transaction_dict
      THEN
        LET sender == Base32Address(transaction_dict["from"])
        IN  IF ~sender.ok
              THEN [ok |-> FALSE, error |-> "InvalidBase32Address",
                    transaction |-> transaction_dict,
                    caller |-> transaction_dict]
            ELSE IF sender.hex_address = account.hex_address
              THEN [ok |-> TRUE, error |-> "",
                    transaction |-> transaction_dict,
                    caller |-> transaction_dict]
            ELSE [ok |-> FALSE, error |-> "SenderMismatch",
                  transaction |-> transaction_dict,
                  caller |-> transaction_dict]
    ELSE [ok |-> TRUE, error |-> "", transaction |-> transaction_dict,
          caller |-> transaction_dict]

\* the 'from' check that deletes the key from the caller's own mapping
sanitized_transaction_in_place(transaction_dict, account) ==
    IF "from" \in DOMAIN transaction_dict
      THEN
        LET sender == Base32Address(transaction_dict["from"])
        IN  IF ~sender.ok
              THEN [ok |-> FALSE, error |-> "InvalidBase32Address",
                    transaction |-> transaction_dict,
                    caller |-> transaction_dict]
            ELSE IF sender.hex_address = account.hex_address
              THEN [ok |-> TRUE, error |-> "",
                    transaction |-> dissoc(transaction_dict, "from"),
                    caller |-> dissoc(transaction_dict, "from")]
            ELSE [ok |-> FALSE, error |-> "SenderMismatch",
                  transaction |-> transaction_dict,
                  caller |-> transaction_dict]
    ELSE [ok |-> TRUE, error |-> "", transaction |-> transaction_dict,
          caller |-> transaction_dict]

\* The 'from' check of sign_transaction: the mapping handed to the signer
\* (transaction), and the caller's own mapping after the check (caller).
sanitized_transaction(transaction_dict, account) ==
    IF "from" \in DOMAIN transaction_dict
      THEN
        LET sender == Base32Address(transaction_dict["from"])
        IN  IF ~sender.ok
              THEN [ok |-> FALSE, error |-> "InvalidBase32Address",
                    transaction |-> transaction_dict,
                    caller |-> transaction_dict]
            ELSE IF sender.hex_address = account.hex_address
              THEN [ok |-> TRUE, error |-> "",
                    transaction |-> dissoc(transaction_dict, "from"),
                    caller |-> transaction_dict]
            ELSE [ok |-> FALSE, error |-> "SenderMismatch",
                  transaction |-> transaction_dict,
                  caller |-> transaction_dict]
    ELSE [ok |-> TRUE, error |-> "", transaction |-> transaction_dict,
          caller |-> transaction_dict]

\* stands for "no SignedTransaction was returned"
NoSigned == [rawTransaction |-> << >>, hash |-> 0, r |-> 0, s |-> 0, v |-> 0]

\* the result of signing with the hash taken over the signing payload
SignedTransaction_payload_hash(v, r, s, rlp_encoded) ==
    [rawTransaction |-> rlp_encoded,
     hash |-> unsigned_hash(Transaction_from_bytes(rlp_encoded)),
     r |-> r, s |-> s, v |-> v]

\* the result of signing, built from what the signer returned
SignedTransaction(v, r, s, rlp_encoded) ==
    [rawTransaction |-> rlp_encoded, hash |-> keccak(rlp_encoded),
     r |-> r, s |-> s, v |-> v]

\* sign_transaction(transaction_dict, private_key). The input is
\* [mapping, items]: whether it is a Mapping, and its items. The outcome
\* holds the result or the error, the caller's mapping and _w3 after the
\* call, the account derived from the key, whether the provider's chain_id
\* was read (consulted) and whether the signer was invoked (engine).
sign_transaction(self_w3, transaction_dict, private_key) ==
    LET failed(error, acct, caller, consulted, engine) ==
            [ok |-> FALSE, error |-> error, signed |-> NoSigned,
             account |-> acct, transaction_dict |-> caller,
             consulted |-> consulted, engine |-> engine, w3 |-> self_w3]
    IN  IF ~transaction_dict.mapping
          THEN failed("TypeError", NoAccount, transaction_dict, FALSE, FALSE)
        ELSE
          LET derived == from_key(self_w3, private_key, NoneId)
          IN  IF ~derived.ok
                THEN failed(derived.error, NoAccount, transaction_dict,
                            derived.consulted, FALSE)
              ELSE
                LET account == derived.account
                    checked == sanitized_transaction(transaction_dict.items,
                                                     account)
                    caller == [transaction_dict EXCEPT
                                 !.items = checked.caller]
                IN  IF ~checked.ok
                      THEN failed(checked.error, account, caller,
                                  derived.consulted, FALSE)
                    ELSE
                      LET sig == sign_transaction_dict(account.key_obj,
                                                       checked.transaction)
                      IN  IF ~sig.ok
                            THEN failed(sig.error, account, caller,
                                        derived.consulted, TRUE)
                          ELSE
                            [ok |-> TRUE, error |-> "",
                             signed |-> SignedTransaction(sig.v, sig.r, sig.s,
                                                          sig.rlp_encoded),
                             account |-> account,
                             transaction_dict |-> caller,
                             consulted |-> derived.consulted,
                             engine |-> TRUE, w3 |-> derived.w3]

\* stands for "no address was returned"
NoAddress == 0

\* recovery from the digest of the signed bytes
recover_transaction_signed_digest(serialized_transaction) ==
    LET txn == Transaction_from_bytes(serialized_transaction)
    IN  IF ~txn.ok
          THEN [ok |-> FALSE, error |-> txn.error, address |-> NoAddress]
        ELSE
          LET recovered == recover_hash(keccak(serialized_transaction),
                                        vrs_from(txn))
          IN  IF ~recovered.ok
                THEN [ok |-> FALSE, error |-> "SignatureRejected",
                      address |-> NoAddress]
              ELSE [ok |-> TRUE, error |-> "",
                    address |-> eth_eoa_address_to_cfx_hex(recovered.address)]

\* recover_transaction(serialized_transaction): the chain-native hex
\* address of the signer, or the error
recover_transaction(serialized_transaction) ==
    LET txn == Transaction_from_bytes(serialized_transaction)
    IN  IF ~txn.ok
          THEN [ok |-> FALSE, error |-> txn.error, address |-> NoAddress]
        ELSE
          LET recovered == recover_hash(unsigned_hash(txn), vrs_from(txn))
          IN  IF ~recovered.ok
                THEN [ok |-> FALSE, error |-> "SignatureRejected",
                      address |-> NoAddress]
              ELSE [ok |-> TRUE, error |-> "",
                    address |-> eth_eoa_address_to_cfx_hex(recovered.address)]

-----------------------------------------------------------------------------
(* Inputs *)

\* two private keys, and a scalar that is no private key
ValidKeys == { 5, 250 }
PrivateKeys == ValidKeys \cup { 0 }

\* the network identifiers callers use; 0 is out of range
ChainIds == { 1, 1029 }
NetworkIds == ChainIds \cup { 0, NoneId }

address_of(K) == LocalAccount(K, NoneId).hex_address

UnsignedTransactions ==
    [nonce : 0..MaxNonce, value : (0 - 1)..MaxValue, chainId : ChainIds]

\* sender strings: the address of one key on each network, and one string
\* whose checksum does not verify
FromValues ==
    { Base32String(1, address_of(5), TRUE),
      Base32String(1029, address_of(250), TRUE),
      Base32String(1, address_of(5), FALSE) }

assoc(d, key, value) ==
    [x \in (DOMAIN d) \cup {key} |-> IF x = key THEN value ELSE d[x]]

TransactionDicts ==
    UnsignedTransactions
      \cup { assoc(T, "from", f) : T \in UnsignedTransactions, f \in FromValues }

\* what callers pass as transaction_dict: mappings, and a list of pairs
TransactionInputs ==
    { [mapping |-> TRUE, items |-> T] : T \in TransactionDicts }
      \cup { [mapping |-> FALSE, items |-> [nonce |-> 0]] }

\* the raw transactions signing produces, each with the key that signed it
SignedBy ==
    { [key |-> K,
       raw |-> sign_transaction_dict(K, T).rlp_encoded] :
         K \in ValidKeys,
         T \in { U \in UnsignedTransactions : sign_transaction_dict(5, U).ok } }

\* what callers pass to recover_transaction: signed transactions, and each
\* of them cut short by one byte
SerializedInputs ==
    { x.raw : x \in SignedBy }
      \cup { SubSeq(x.raw, 1, Len(x.raw) - 1) : x \in SignedBy }

-----------------------------------------------------------------------------
(* The state machine *)

Init ==
    /\ w3 = NoW3
    /\ call = [op |-> "init"]

SetW3 ==
    \E provider \in Providers :
        /\ w3' = set_w3(w3, provider)
        /\ call' = [op |-> "set_w3", w3_before |-> w3, provider |-> provider]

FromKey ==
    \E private_key \in PrivateKeys, network_id \in NetworkIds :
        LET out == from_key(w3, private_key, network_id)
        IN  /\ w3' = out.w3
            /\ call' = [op |-> "from_key", w3_before |-> w3,
                        private_key |-> private_key,
                        network_id |-> network_id, out |-> out]

SignTransaction ==
    \E transaction_dict \in TransactionInputs, private_key \in PrivateKeys :
        LET out == sign_transaction(w3, transaction_dict, private_key)
        IN  /\ w3' = out.w3
            /\ call' = [op |-> "sign_transaction", w3_before |-> w3,
                        transaction_dict |-> transaction_dict,
                        private_key |-> private_key, out |-> out]

RecoverTransaction ==
    \E serialized_transaction \in SerializedInputs :
        /\ UNCHANGED w3
        /\ call' = [op |-> "recover_transaction", w3_before |-> w3,
                    serialized_transaction |-> serialized_transaction,
                    out |-> recover_transaction(serialized_transaction)]

Next == SetW3 \/ FromKey \/ SignTransaction \/ RecoverTransaction

Spec == Init /\ [][Next]_vars

-----------------------------------------------------------------------------
(* What the last call was *)

Signing == call.op = "sign_transaction"

\* the last call signed a mapping with a usable key
SigningMapping ==
    /\ Signing
    /\ call.transaction_dict.mapping
    /\ parsePrivateKey(call.private_key).ok

\* the last call signed a mapping that declares a decodable sender
SigningWithSender ==
    /\ SigningMapping
    /\ "from" \in DOMAIN call.transaction_dict.items
    /\ Base32Address(call.transaction_dict.items["from"]).ok

SenderAddress == Base32Address(call.transaction_dict.items["from"]).hex_address

\* the input of the last signing call with the 'from' field left out
WithoutSender ==
    [mapping |-> TRUE, items |-> dissoc(call.transaction_dict.items, "from")]

-----------------------------------------------------------------------------
(* C1 *)

\* C1: signing a mapping whose 'from' decodes to a hex address other than
\* the key's always fails with the sender-mismatch error, before the signer
\* is invoked, and returns no SignedTransaction.
C1_SenderMismatchFails ==
    (SigningWithSender /\ SenderAddress # address_of(call.private_key))
        => /\ ~call.out.ok
           /\ call.out.error = "SenderMismatch"
           /\ ~call.out.engine
           /\ call.out.signed = NoSigned

\* a signing call with another key's address as sender, with a context set
C1_Witness ==
    /\ SigningWithSender
    /\ SenderAddress # address_of(call.private_key)
    /\ call.w3_before # NoW3
    /\ call.out.error = "SenderMismatch"

-----------------------------------------------------------------------------
(* C2 *)

\* C2: signing a mapping whose 'from' is the key's own address succeeds
\* exactly when signing the same mapping without 'from' succeeds, and then
\* returns the same rawTransaction, hash, r, s and v.
C2_MatchingSenderSameAsOmitted ==
    (SigningWithSender /\ SenderAddress = address_of(call.private_key))
        => LET omitted == sign_transaction(call.w3_before, WithoutSender,
                                           call.private_key)
           IN  /\ call.out.ok = omitted.ok
               /\ call.out.error = omitted.error
               /\ call.out.signed = omitted.signed

\* a successful signing call with the key's own address as sender
C2_Witness ==
    /\ SigningWithSender
    /\ SenderAddress = address_of(call.private_key)
    /\ call.out.ok
    /\ call.out.signed # NoSigned

-----------------------------------------------------------------------------
(* C3 *)

\* C3: recovery from the rawTransaction of any successful signing returns
\* the chain-native hex address of the key that signed.
C3_RecoverReturnsSigner ==
    call.op = "recover_transaction"
        => \A T \in TransactionInputs, K \in PrivateKeys :
              LET signing == sign_transaction(call.w3_before, T, K)
              IN  (signing.ok /\ signing.signed.rawTransaction
                                    = call.serialized_transaction)
                      => /\ call.out.ok
                         /\ call.out.address = address_of(K)

\* a recovery from a transaction signed with key 250 that declared a sender
C3_Witness ==
    /\ call.op = "recover_transaction"
    /\ call.out.ok
    /\ call.out.address = address_of(250)
    /\ \E T \in TransactionInputs :
          /\ T.mapping
          /\ "from" \in DOMAIN T.items
          /\ sign_transaction(NoW3, T, 250).signed.rawTransaction
                = call.serialized_transaction

-----------------------------------------------------------------------------
(* C4 *)

\* C4: a returned SignedTransaction holds the bytes the signer returned, the
\* digest of exactly those bytes, and the signer's v, r, s, and nothing else.
C4_ResultIsSignerOutput ==
    (Signing /\ call.out.ok)
        => LET sig == sign_transaction_dict(
                          parsePrivateKey(call.private_key).key_obj,
                          WithoutSender.items)
               signed == call.out.signed
           IN  /\ signed.rawTransaction = sig.rlp_encoded
               /\ signed.hash = keccak(signed.rawTransaction)
               /\ << signed.v, signed.r, signed.s >> = << sig.v, sig.r, sig.s >>
               /\ DOMAIN signed = { "rawTransaction", "hash", "r", "s", "v" }

\* a successful signing call for the mainnet chain
C4_Witness ==
    /\ Signing
    /\ call.out.ok
    /\ call.transaction_dict.items.chainId = 1029
    /\ Len(call.out.signed.rawTransaction) > 0

-----------------------------------------------------------------------------
(* C5 *)

\* the last call attached a context whose network identifier differs from
\* the one attached before
Rebinding ==
    /\ call.op = "set_w3"
    /\ call.w3_before # NoW3
    /\ chain_id(call.provider) # chain_id(call.w3_before)

-----------------------------------------------------------------------------
(* C6 *)

\* C6: whatever the outcome, signing leaves the caller's mapping and _w3 as
\* they were and returns no SignedTransaction on failure; recovery leaves
\* _w3 as it was and returns no address on failure.
C6_NoSideEffect ==
    /\ Signing
          => /\ call.out.transaction_dict = call.transaction_dict
             /\ w3 = call.w3_before
             /\ (~call.out.ok => call.out.signed = NoSigned)
    /\ call.op = "recover_transaction"
          => /\ w3 = call.w3_before
             /\ (~call.out.ok => call.out.address = NoAddress)

\* a successful signing call whose mapping declared the sender, with a
\* context set: the sender is still in the caller's mapping
C6_Witness ==
    /\ SigningWithSender
    /\ call.out.ok
    /\ call.w3_before # NoW3
    /\ "from" \in DOMAIN call.out.transaction_dict.items

-----------------------------------------------------------------------------
(* C7 *)

\* C7: signing is a function of the transaction and the key alone: its
\* outcome is the one it has with no context attached, and it does not read
\* the provider's chain_id.
C7_SigningIsPure ==
    Signing
        => LET alone == sign_transaction(NoW3, call.transaction_dict,
                                         call.private_key)
           IN  /\ call.out.ok = alone.ok
               /\ call.out.error = alone.error
               /\ call.out.signed = alone.signed
               /\ ~call.out.consulted

-----------------------------------------------------------------------------
(* C8 *)

\* C8: when the account derived for signing is bound to a network
\* identifier, a successful signing implies that the transaction's chainId
\* is that identifier.
C8_ChainIdMatchesNetwork ==
    (Signing /\ call.out.ok /\ call.out.account.network_id # NoneId)
        => call.transaction_dict.items.chainId = call.out.account.network_id

-----------------------------------------------------------------------------
(* C9 *)

\* C9: from_key never changes _w3 and, for a usable key, chooses the network
\* identifier by precedence: an explicit network_id is the one used (or the
\* one rejected) and the provider is not read; with none and a context set
\* the provider's chain_id is read and used; with neither the account has
\* no network identifier. The account holds the parsed key.
C9_FromKeyPrecedence ==
    call.op = "from_key"
        => /\ w3 = call.w3_before
           /\ parsePrivateKey(call.private_key).ok
                => /\ call.network_id # NoneId
                      => /\ ~call.out.consulted
                         /\ call.out.ok = validate_network_id(call.network_id)
                         /\ call.out.ok => call.out.account.network_id
                                              = call.network_id
                   /\ (call.network_id = NoneId /\ call.w3_before # NoW3)
                      => /\ call.out.ok
                         /\ call.out.consulted
                         /\ call.out.account.network_id
                               = chain_id(call.w3_before)
                   /\ (call.network_id = NoneId /\ call.w3_before = NoW3)
                      => /\ call.out.ok
                         /\ ~call.out.consulted
                         /\ call.out.account.network_id = NoneId
                   /\ call.out.ok
                      => call.out.account.key_obj
                            = parsePrivateKey(call.private_key).key_obj

\* an explicit identifier used while a context of another network is set
C9_Witness ==
    /\ call.op = "from_key"
    /\ call.w3_before = "mainnet"
    /\ call.network_id = 1
    /\ call.out.ok
    /\ call.out.account.network_id = 1

-----------------------------------------------------------------------------
(* C10 *)

\* C10: every account from_key returns with a network identifier carries one
\* that the validator accepts.
C10_BoundIdentifierValidated ==
    (call.op = "from_key" /\ call.out.ok
        /\ call.out.account.network_id # NoneId)
        => validate_network_id(call.out.account.network_id)

====
